---- MODULE Spec2Model ----
(***************************************************************************)
(* exportify-cli: export of Spotify playlists to flat files.               *)
(*                                                                         *)
(* Two programs of the repository are modelled, selected by `prog`:        *)
(*   "cli"    src/exportify-cli.py  (SpotifyExporter, main)                *)
(*   "legacy" src/exportify.py      (rate_limited_request,                 *)
(*                                   export_playlist_to_csv,               *)
(*                                   export_all_playlists)                 *)
(* The remote catalog is the environment: it decides, at every request,    *)
(* the HTTP status (200, 429, or another failure), the page it serves and  *)
(* the albums a batch response omits.                                      *)
(***************************************************************************)
EXTENDS Integers, Sequences, FiniteSets, TLC

\* ---------------------------------------------------------------- bounds
MaxItems == 2          \* longest small playlist served by the remote
MaxAlb == 1            \* album ids referenced by small playlists: 1..MaxAlb
MaxPage == 2           \* page sizes of small playlists: 1..MaxPage
MaxUser == 1           \* user playlists listed besides the liked songs
MaxBig == 45           \* largest "big" playlist (one album per track)
BigPage == 20          \* page size the remote uses for a big playlist
MaxBigPlaylists == 1   \* big playlists served in one run
MaxOmit == 1           \* a batch response omits only among its first MaxOmit ids
MaxFaults == 2         \* failing answers (429 or other) the remote gives in one run
MaxRecords == 3        \* longest playlist whose records are sorted
MaxRetryAfter == 2     \* largest Retry-After (seconds) a 429 answer carries
MaxTail == 1           \* empty pages a small source serves after its last item

\* ------------------------------------------------------ program constants
BatchSize == 20        \* ids per batch request
RateLimitStatus == 429 \* e.http_status of a rate-limit answer
CountdownFrom == 60    \* range(60, -1, -1)

\* What a remote call gives its caller: a normal return, or a
\* spotipy.SpotifyException carrying an http_status.
Returned == [exc |-> FALSE, http_status |-> 0]
Raised(st) == [exc |-> TRUE, http_status |-> st]
OtherStatus == RateLimitStatus + 1   \* any status that is not the rate-limit one

\* ---------------------------------------------------------------- helpers
Min(a, b) == IF a < b THEN a ELSE b

Range(s) == {s[i] : i \in DOMAIN s}

SeqsUpTo(S, n) == UNION {[1..k -> S] : k \in 0..n}

SetMin(S) == CHOOSE x \in S : \A y \in S : x <= y

RECURSIVE SortedSeq(_)
SortedSeq(S) == IF S = {} THEN <<>>
                ELSE LET m == SetMin(S) IN <<m>> \o SortedSeq(S \ {m})

RECURSIVE Flatten(_)
Flatten(ss) == IF ss = <<>> THEN <<>> ELSE Head(ss) \o Flatten(Tail(ss))

\* ------------------------------------------------------------ environment
NullItem == [track |-> FALSE, album |-> 0]
Track(a) == [track |-> TRUE, album |-> a]
ItemVals == {NullItem} \cup {Track(a) : a \in 0..MaxAlb}

\* A paginated source: the items it can serve, the total its first page
\* declares, its page size, and the empty pages it serves after its last item
\* before its cursor is null.  The declared total may be off by one.
SmallSourcesOf(tls) ==
    {src \in [items : SeqsUpTo(ItemVals, MaxItems), total : 0..(MaxItems + 1),
              page : 1..MaxPage, tail : tls] :
        /\ src.total <= Len(src.items) + 1
        /\ Len(src.items) <= src.total + 1}

SmallSources == SmallSourcesOf(0..MaxTail)

\* The small sources whose cursor is null right after the last item.
PlainSources == SmallSourcesOf({0})

BigCounts == {n \in 1..MaxBig : n % BatchSize \in {0, 1, 5}}

BigSources ==
    {[items |-> [i \in 1..n |-> Track(i)], total |-> n, page |-> BigPage, tail |-> 0] :
        n \in BigCounts}

ListSources ==
    {[items |-> [i \in 1..n |-> [id |-> i + 1]], total |-> n, page |-> p, tail |-> 0] :
        n \in 0..MaxUser, p \in 1..MaxPage}

\* The page of source s at cursor position `off`: the items after the first
\* `off` ones, and an empty page once the items are served.
PageAt(s, off) ==
    IF off < Len(s.items) THEN SubSeq(s.items, off + 1, Min(off + s.page, Len(s.items)))
    ELSE <<>>

\* The cursor position after the page at `off` was served.
Advance(s, off) == IF off < Len(s.items) THEN off + Len(PageAt(s, off)) ELSE off + 1

\* The "next" cursor at position `off`: TRUE when non-null.
HasNext(s, off) == off < Len(s.items) + s.tail

\* The pages source s serves before its cursor is null.
NumPages(s) == (IF s.items = <<>> THEN 1 ELSE (Len(s.items) + s.page - 1) \div s.page) + s.tail


\* ------------------------------------------------------------------ state
VARIABLES
    prog,         \* "cli" | "legacy": which program runs
    pc,           \* position of the program
    outcome,      \* "running" | "done" | "crashed"
    error,        \* the exception that ended the run ("none" while there is none)
    faultsLeft,   \* failing answers (429 or other) the remote may still give
    bigLeft,      \* big playlists the remote may still serve
    retry,        \* rate_limited_request caught a 429, slept, and is about to call again
    attempts,     \* the calls sent to the remote by the current request
    via,          \* "guard" | "direct": how the current request is made ("none" at start)
    answer,       \* the remote's answer to the last call
    given,        \* what the last finished request gave its caller
    playlists,    \* the targets, liked songs first
    t,            \* index of the target being exported
    phase,        \* "list" | "tracks": what the paginated fetch retrieves
    src,          \* the source the remote serves to the current paginated fetch
    off,          \* cursor position in src (the "next" of `results`): items served, then empty pages
    continuations, \* history: `next` requests of the current fetch that were answered
    items,        \* accumulated items of the paginated fetch
    total,        \* total declared by the first page
    id_list,      \* ids_to_fetch of the current export
    n_album_ids,  \* len(album_ids) of the current export (total_override)
    batches,      \* the batches built by batch mode
    b,            \* index of the batch in flight
    page_items,   \* items of the batch response in hand
    unfetched,    \* unfetched_ids still to look up
    shows,        \* fallback results of the batch in hand
    new_albums,   \* accumulated items of batch mode
    album_cache,  \* SpotifyExporter.album_cache: album id -> the album object stored
    files,        \* output file of each target: "absent" | "open" | "written"
    rows,         \* rows written to the file of the current target
    warnings,     \* logger.warning calls
    batchCalls,   \* history: batch requests issued by the current export
    showCalls,    \* history: fallback lookups issued by the current export
    sentCached,   \* history: ids requested while already in album_cache
    omitted,      \* history: ids the batch responses of the current export omitted
    failed,       \* history: ids whose fallback lookup failed in the current export
    sort_key,     \* SpotifyExporter.sort_key (configuration)
    reverse_order, \* SpotifyExporter.reverse_order (configuration)
    export_data,  \* export_data of the current export
    built,        \* history: export_data as it was built, in source order
    hints,        \* the Retry-After values the remote may send with a 429 (0: none)
    retry_after,  \* Retry-After of the 429 the guard has caught (0: none, or no 429)
    slept,        \* seconds the guard slept on the 429 it has caught
    tails         \* the numbers of trailing empty pages the remote's small sources may have

envVars == <<faultsLeft, bigLeft>>
ctlVars == <<pc, outcome, error>>
pageVars == <<phase, src, off, continuations, items, total>>
batchVars == <<id_list, n_album_ids, batches, b, page_items, unfetched, shows, new_albums>>
histVars == <<batchCalls, showCalls, sentCached, omitted, failed>>
dataVars == <<playlists, t, pageVars, batchVars, album_cache, files, rows, warnings, histVars>>
reqVars == <<retry, attempts, via, answer, given, retry_after, slept>>
fixedVars == <<prog, sort_key, reverse_order, hints, tails>>
outVars == <<export_data, built>>
vars == <<fixedVars, ctlVars, envVars, reqVars, dataVars, outVars>>

NoSource == [items |-> <<>>, total |-> 0, page |-> 1, tail |-> 0]

\* self.album_cache: dict[str, dict] = {}
NoAlbums == [id \in {} |-> 0]
Targets == 1..(MaxUser + 1)

\* The state at the start of program p, the remote serving at most nbig big
\* playlists, sending a Retry-After of hs with its 429 answers, and serving
\* small sources with tls trailing empty pages.
InitOf(p, nbig, hs, tls) ==
    /\ prog = p
    /\ pc = IF p = "cli" THEN "c_first" ELSE "l_list"
    /\ outcome = "running"
    /\ error = "none"
    /\ faultsLeft = MaxFaults
    /\ bigLeft = nbig
    /\ retry = FALSE
    /\ attempts = <<>>
    /\ via = "none"
    /\ answer = Returned
    /\ given = Returned
    /\ playlists = <<>>
    /\ t = 0
    /\ phase = "list"
    /\ src = NoSource
    /\ off = 0
    /\ continuations = 0
    /\ items = <<>>
    /\ total = 0
    /\ id_list = <<>>
    /\ n_album_ids = 0
    /\ batches = <<>>
    /\ b = 0
    /\ page_items = <<>>
    /\ unfetched = <<>>
    /\ shows = <<>>
    /\ new_albums = <<>>
    /\ album_cache = NoAlbums
    /\ files = [k \in Targets |-> "absent"]
    /\ rows = 0
    /\ warnings = 0
    /\ batchCalls = <<>>
    /\ showCalls = <<>>
    /\ sentCached = {}
    /\ omitted = {}
    /\ failed = {}
    /\ sort_key = "spotify_default"
    /\ reverse_order = FALSE
    /\ export_data = <<>>
    /\ built = <<>>
    /\ hints = hs
    /\ retry_after = 0
    /\ slept = 0
    /\ tails = tls

Init == \E p \in {"cli", "legacy"} : InitOf(p, MaxBigPlaylists, {0}, {0})

\* ----------------------------------------------------------- remote calls
\* The answers the remote can give to one call.
Answers ==
    {Returned}
        \cup (IF faultsLeft > 0 THEN {Raised(RateLimitStatus), Raised(OtherStatus)} ELSE {})

Spend(ans) == faultsLeft' = IF ans.exc THEN faultsLeft - 1 ELSE faultsLeft

\* func(*args, **kwargs): the call that reaches the remote.
Invoke(func, arg) == [op |-> func, arg |-> arg]

\* Faulty variant of IsRateLimit: the wrong status is taken for the rate-limit one.
IsRateLimitWrongStatus(ans) == ans.exc /\ ans.http_status = OtherStatus

\* `if e.http_status == 429`
IsRateLimit(ans) == ans.exc /\ ans.http_status = RateLimitStatus

\* for remaining in range(60, -1, -1): time.sleep(1)
Countdown == Cardinality({r \in -1..CountdownFrom : r > -1})

\* An exception nobody catches ends the process.
Crash(e) == pc' = "exit" /\ outcome' = "crashed" /\ error' = e

ExcName(ans) == IF IsRateLimit(ans) THEN "ratelimit" ELSE "remote"

\* rate_limited_request(func, *args): a 429 is slept out and the call is
\* made again; any other exception is re-raised; a result is returned.
\* OnReturn is what the caller does with the result.
RateLimited(func, arg, OnReturn) ==
    \E ans \in Answers :
        /\ Spend(ans)
        /\ attempts' = (IF retry THEN attempts ELSE <<>>) \o <<Invoke(func, arg)>>
        /\ via' = "guard"
        /\ answer' = ans
        /\ IF ~ans.exc
              THEN /\ retry' = FALSE /\ given' = ans
                   /\ retry_after' = 0 /\ slept' = 0
                   /\ OnReturn
              ELSE IF IsRateLimit(ans)
                     THEN /\ retry' = TRUE
                          /\ retry_after' \in hints
                          /\ slept' = Countdown
                          /\ UNCHANGED given
                          /\ UNCHANGED <<ctlVars, bigLeft, dataVars>>
                     ELSE /\ retry' = FALSE
                          /\ given' = ans
                          /\ retry_after' = 0 /\ slept' = 0
                          /\ Crash(ExcName(ans))
                          /\ UNCHANGED <<bigLeft, dataVars>>

\* A call made directly on the client: every SpotifyException propagates.
Direct(func, arg, OnReturn) ==
    \E ans \in Answers :
        /\ Spend(ans)
        /\ attempts' = <<Invoke(func, arg)>>
        /\ via' = "direct"
        /\ answer' = ans
        /\ given' = ans
        /\ retry' = FALSE
        /\ retry_after' = 0 /\ slept' = 0
        /\ IF ~ans.exc
              THEN OnReturn
              ELSE Crash(ExcName(ans)) /\ UNCHANGED <<bigLeft, dataVars>>

\* The sources the remote can serve to a first-page request.
Sources ==
    (IF tails = {0} THEN PlainSources ELSE {s \in SmallSources : s.tail \in tails})
        \cup (IF bigLeft > 0 THEN BigSources ELSE {})

ServeBig(s) == bigLeft' = IF s \in BigSources THEN bigLeft - 1 ELSE bigLeft

TracksFunc == IF playlists[t] = 1 THEN "current_user_saved_tracks" ELSE "playlist_tracks"
TracksArg == IF playlists[t] = 1 THEN 0 ELSE playlists[t]

\* The run goes on with the next target, or ends.
NextTarget(first) ==
    IF t < Len(playlists)
      THEN t' = t + 1 /\ pc' = first /\ UNCHANGED <<outcome, error>>
      ELSE t' = t /\ pc' = "exit" /\ outcome' = "done" /\ UNCHANGED error

\* ------------------------------------------------- legacy: src/exportify.py
\* export_all_playlists: playlists = rate_limited_request(sp.current_user_playlists)['items']
L_List ==
    /\ prog = "legacy" /\ pc = "l_list"
    /\ RateLimited("current_user_playlists", 0,
         \E s \in ListSources :
            /\ playlists' = [i \in 1..Len(PageAt(s, 0)) |-> PageAt(s, 0)[i].id]
            /\ pc' = "l_liked"
            /\ UNCHANGED <<outcome, error, bigLeft, t, pageVars, batchVars,
                           album_cache, files, rows, warnings, histVars>>)
    /\ UNCHANGED <<fixedVars, outVars>>

\* 'total': sp.current_user_saved_tracks()['total'], then playlists.insert(0, liked_songs)
L_Liked ==
    /\ prog = "legacy" /\ pc = "l_liked"
    /\ Direct("current_user_saved_tracks", 0,
         /\ playlists' = <<1>> \o playlists
         /\ t' = 1
         /\ pc' = "l_open"
         /\ UNCHANGED <<outcome, error, bigLeft, pageVars, batchVars,
                        album_cache, files, rows, warnings, histVars>>)
    /\ UNCHANGED <<fixedVars, outVars>>

\* export_playlist_to_csv: with open(file_path, mode='w') ...: writer.writerow(headers)
L_Open ==
    /\ prog = "legacy" /\ pc = "l_open"
    /\ files' = [files EXCEPT ![t] = "open"]
    /\ rows' = 0
    /\ pc' = "l_first"
    /\ phase' = "tracks" /\ src' = NoSource /\ off' = 0 /\ items' = <<>> /\ total' = 0
    /\ continuations' = 0
    /\ warnings' = 0
    /\ UNCHANGED <<fixedVars, outVars, outcome, error, envVars, reqVars, playlists, t, batchVars,
                   album_cache, histVars>>

\* Faulty variant of L_AfterPage: the loop runs until the declared total.
L_AfterPageUntilTotal(s, o) == IF o < s.total THEN "l_next" ELSE "l_rows"

\* `while results['next']`
L_AfterPage(s, o) == IF HasNext(s, o) THEN "l_next" ELSE "l_rows"

\* results = rate_limited_request(sp.playlist_tracks, playlist['id']); tracks = results['items']
L_First ==
    /\ prog = "legacy" /\ pc = "l_first"
    /\ RateLimited(TracksFunc, TracksArg,
         \E s \in Sources :
            /\ ServeBig(s)
            /\ src' = s
            /\ items' = PageAt(s, 0)
            /\ off' = Len(PageAt(s, 0))
            /\ continuations' = 0
            /\ total' = s.total
            /\ pc' = L_AfterPage(s, Len(PageAt(s, 0)))
            /\ UNCHANGED <<outcome, error, playlists, t, phase, batchVars,
                           album_cache, files, rows, warnings, histVars>>)
    /\ UNCHANGED <<fixedVars, outVars>>

\* results = rate_limited_request(sp.next, results); tracks.extend(results['items'])
L_Next ==
    /\ prog = "legacy" /\ pc = "l_next"
    /\ RateLimited("next", off,
         /\ items' = items \o PageAt(src, off)
         /\ off' = Advance(src, off)
         /\ continuations' = continuations + 1
         /\ pc' = L_AfterPage(src, Advance(src, off))
         /\ UNCHANGED <<outcome, error, bigLeft, playlists, t, phase, src, total,
                        batchVars, album_cache, files, rows, warnings, histVars>>)
    /\ UNCHANGED <<fixedVars, outVars>>

\* Rows written before `"id" in track` raises TypeError on a null track.
RowsBeforeNull(tracks) ==
    IF \E i \in DOMAIN tracks : ~tracks[i].track
      THEN SetMin({i \in DOMAIN tracks : ~tracks[i].track}) - 1
      ELSE Len(tracks)

\* for item in tracks: track = item['track']; row = [...]; writer.writerow(row)
L_Rows ==
    /\ prog = "legacy" /\ pc = "l_rows"
    /\ IF RowsBeforeNull(items) < Len(items)
          THEN /\ files' = [files EXCEPT ![t] = "open"]
               /\ rows' = RowsBeforeNull(items)
               /\ Crash("TypeError")
               /\ t' = t
          ELSE /\ files' = [files EXCEPT ![t] = "written"]
               /\ rows' = Len(items)
               /\ NextTarget("l_open")
    /\ UNCHANGED <<fixedVars, outVars, envVars, reqVars, playlists, pageVars, batchVars,
                   album_cache, warnings, histVars>>

NextLegacy == L_List \/ L_Liked \/ L_Open \/ L_First \/ L_Next \/ L_Rows

\* -------------------------------------------- cli: src/exportify-cli.py
\* Faulty variant of C_AfterPage: the loop stops one item early.
C_AfterPageEarly(its, tot) ==
    IF Len(its) + 1 < tot THEN "c_next"
    ELSE IF phase = "list" THEN "c_liked" ELSE "c_albums"

\* `while len(items) < total`, then back to the caller of the paginated fetch.
C_AfterPage(its, tot) ==
    IF Len(its) < tot THEN "c_next"
    ELSE IF phase = "list" THEN "c_liked" ELSE "c_albums"

\* Paginated mode, initial fetch: results = fetch_func(*args, **kwargs)
C_First ==
    /\ prog = "cli" /\ pc = "c_first"
    /\ Direct(IF phase = "list" THEN "current_user_playlists" ELSE TracksFunc,
              IF phase = "list" THEN 0 ELSE TracksArg,
         \E s \in (IF phase = "list" THEN ListSources ELSE Sources) :
            /\ ServeBig(s)
            /\ src' = s
            /\ items' = PageAt(s, 0)
            /\ off' = Len(PageAt(s, 0))
            /\ continuations' = 0
            /\ total' = s.total
            /\ pc' = C_AfterPage(PageAt(s, 0), s.total)
            /\ UNCHANGED <<outcome, error, playlists, t, phase, batchVars,
                           album_cache, files, rows, warnings, histVars>>)
    /\ UNCHANGED <<fixedVars, outVars>>

\* results = self.spotify.next(results); page_items = results.get(key, [])
\* spotipy's next() returns None, without a request, when results["next"] is null.
C_Next ==
    /\ prog = "cli" /\ pc = "c_next"
    /\ IF HasNext(src, off)
          THEN Direct("next", off,
                 /\ items' = items \o PageAt(src, off)
                 /\ off' = Advance(src, off)
                 /\ continuations' = continuations + 1
                 /\ pc' = C_AfterPage(items \o PageAt(src, off), total)
                 /\ UNCHANGED <<outcome, error, bigLeft, playlists, t, phase, src, total,
                                batchVars, album_cache, files, rows, warnings, histVars>>)
          ELSE /\ Crash("AttributeError")
               /\ UNCHANGED <<envVars, reqVars, dataVars>>
    /\ UNCHANGED <<fixedVars, outVars>>

\* get_playlists: liked_total = self.spotify.current_user_saved_tracks(limit=1)["total"];
\* return [liked, *items].  main: targets = fetched_playlists (--all).
C_Liked ==
    /\ prog = "cli" /\ pc = "c_liked"
    /\ Direct("current_user_saved_tracks", 0,
         /\ playlists' = <<1>> \o [i \in 1..Len(items) |-> items[i].id]
         /\ t' = 1
         /\ pc' = "c_start"
         /\ UNCHANGED <<outcome, error, bigLeft, pageVars, batchVars,
                        album_cache, files, rows, warnings, histVars>>)
    /\ UNCHANGED <<fixedVars, outVars>>

\* export_playlist: output_dir.mkdir(parents=True, exist_ok=True); fresh locals.
C_Start ==
    /\ prog = "cli" /\ pc = "c_start"
    /\ pc' = "c_first"
    /\ phase' = "tracks" /\ src' = NoSource /\ off' = 0 /\ items' = <<>> /\ total' = 0
    /\ continuations' = 0
    /\ id_list' = <<>> /\ n_album_ids' = 0 /\ batches' = <<>> /\ b' = 0
    /\ page_items' = <<>> /\ unfetched' = <<>> /\ shows' = <<>> /\ new_albums' = <<>>
    /\ warnings' = 0 /\ rows' = 0
    /\ batchCalls' = <<>> /\ showCalls' = <<>> /\ omitted' = {} /\ failed' = {}
    /\ export_data' = <<>> /\ built' = <<>>
    /\ UNCHANGED <<fixedVars, outcome, error, envVars, reqVars, playlists, t,
                   album_cache, files, sentCached>>

\* album_ids = {i["track"]["album"]["id"] for i in items if track and album and id}
AlbumIdsOf(its) == {its[i].album : i \in {j \in DOMAIN its : its[j].track /\ its[j].album # 0}}

\* Faulty variant of IdsToFetch: the cache is not consulted.
IdsToFetchAll(album_ids, cache) == SortedSeq(album_ids)

\* ids_to_fetch = [aid for aid in album_ids if aid not in self.album_cache]
\* (the iteration order of the set is taken to be ascending)
IdsToFetch(album_ids, cache) ==
    SelectSeq(SortedSeq(album_ids), LAMBDA aid : aid \notin DOMAIN cache)

\* id_list[i : i + 20]
Slice(ids, i) == SubSeq(ids, i + 1, Min(i + BatchSize, Len(ids)))

\* Faulty variant of Batches: empty slices are not filtered out.
BatchesUnfiltered(ids, tot) ==
    LET starts == SortedSeq({i \in 0..(tot - 1) : i % BatchSize = 0})
    IN [k \in DOMAIN starts |-> Slice(ids, starts[k])]

\* batches = [id_list[i : i + 20] for i in range(0, total, 20) if id_list[i : i + 20]]
Batches(ids, tot) ==
    LET starts == SortedSeq({i \in 0..(tot - 1) : i % BatchSize = 0})
        all == [k \in DOMAIN starts |-> Slice(ids, starts[k])]
    IN SelectSeq(all, LAMBDA sl : sl # <<>>)

\* export_playlist: `if ids_to_fetch:` then batch mode of _fetch_all_items with
\* total = total_override = len(album_ids).
C_Albums ==
    /\ prog = "cli" /\ pc = "c_albums"
    /\ LET ids == IdsToFetch(AlbumIdsOf(items), album_cache)
           n == Cardinality(AlbumIdsOf(items))
       IN /\ id_list' = ids
          /\ n_album_ids' = n
          /\ batches' = IF ids # <<>> THEN Batches(ids, n) ELSE <<>>
          /\ b' = 1
          /\ pc' = IF ids # <<>> /\ Batches(ids, n) # <<>> THEN "c_batch" ELSE "c_build"
    /\ UNCHANGED <<fixedVars, outVars, outcome, error, envVars, reqVars, playlists, t, pageVars,
                   page_items, unfetched, shows, new_albums,
                   album_cache, files, rows, warnings, histVars>>

\* The ids a batch response may omit.
OmitChoices(batch) == SUBSET {batch[i] : i \in 1..Min(MaxOmit, Len(batch))}

\* Faulty variant of UnfetchedIds: every id of the batch is looked up again.
UnfetchedAll(batch, fetched) == SortedSeq(Range(batch))

\* fetched_ids = [i.get("id") for i in page_items if i and i.get("id")]
\* unfetched_ids = list(set(batch) - set(fetched_ids))
UnfetchedIds(batch, fetched) == SortedSeq(Range(batch) \ Range(fetched))

\* items.extend(page_items) closes one batch; the loop goes on or returns.
C_AfterBatch == IF b < Len(batches) THEN "c_batch" ELSE "c_build"

\* for batch in batches: results = fetch_func(batch, ...)
C_Batch ==
    /\ prog = "cli" /\ pc = "c_batch"
    /\ Direct("albums", batches[b],
         \E omitted_now \in OmitChoices(batches[b]) :
            LET fetched == SelectSeq(batches[b], LAMBDA a : a \notin omitted_now)
                todo == UnfetchedIds(batches[b], fetched)
            IN /\ page_items' = fetched
               /\ unfetched' = todo
               /\ shows' = <<>>
               /\ batchCalls' = Append(batchCalls, batches[b])
               /\ sentCached' = sentCached \cup (Range(batches[b]) \cap DOMAIN album_cache)
               /\ omitted' = omitted \cup omitted_now
               /\ IF todo = <<>>
                     THEN /\ new_albums' = new_albums \o fetched
                          /\ b' = b + 1
                          /\ pc' = C_AfterBatch
                     ELSE /\ pc' = "c_show"
                          /\ UNCHANGED <<new_albums, b>>
               /\ UNCHANGED <<outcome, error, bigLeft, playlists, t, pageVars,
                              id_list, n_album_ids, batches,
                              album_cache, files, rows, warnings, showCalls, failed>>)
    /\ UNCHANGED <<fixedVars, outVars>>

\* for id in unfetched_ids: try: shows.append(self.spotify.show(id))
\*                          except spotipy.SpotifyException: logger.warning(...)
C_Show ==
    /\ prog = "cli" /\ pc = "c_show"
    /\ \E ans \in Answers :
        LET id == Head(unfetched)
            got == IF ans.exc THEN shows ELSE Append(shows, id)
        IN /\ Spend(ans)
           /\ attempts' = <<Invoke("show", id)>>
           /\ via' = "direct"
           /\ answer' = ans
           /\ given' = ans
           /\ retry' = FALSE
           /\ retry_after' = 0 /\ slept' = 0
           /\ shows' = got
           /\ warnings' = IF ans.exc THEN warnings + 1 ELSE warnings
           /\ showCalls' = Append(showCalls, id)
           /\ sentCached' = sentCached \cup ({id} \cap DOMAIN album_cache)
           /\ failed' = IF ans.exc THEN failed \cup {id} ELSE failed
           /\ unfetched' = Tail(unfetched)
           /\ IF Tail(unfetched) = <<>>
                 THEN /\ new_albums' = new_albums \o page_items \o got
                      /\ b' = b + 1
                      /\ pc' = C_AfterBatch
                 ELSE UNCHANGED <<new_albums, b, pc>>
    /\ UNCHANGED <<fixedVars, outVars, outcome, error, bigLeft, playlists, t, pageVars,
                   id_list, n_album_ids, batches, page_items,
                   album_cache, files, rows, batchCalls, omitted>>

\* The album object the remote serves for an id while target k is exported
\* (what the remote holds under an id may differ from one export to the next).
Album(id, k) == [id |-> id, served |-> k]

\* Faulty variant of CacheAfter: the cache is rebuilt from the new albums.
CacheReplaced(cache, albs, k) == [id \in Range(albs) |-> Album(id, k)]

\* for alb in new_albums: if alb and alb.get("id"): self.album_cache[alb["id"]] = alb
CacheAfter(cache, albs, k) ==
    LET stored == Range(albs)
    IN [id \in DOMAIN cache \cup stored |-> IF id \in stored THEN Album(id, k) ELSE cache[id]]

\* Field values of a record: None, an int, or a str (the sequence of its code points).
None == [k |-> "none", n |-> 0, s |-> <<>>]
IntVal(n) == [k |-> "int", n |-> n, s |-> <<>>]
StrVal(s) == [k |-> "str", n |-> 0, s |-> s]

\* d.get(key): None when d has no such key.
Get(d, key) == IF key \in DOMAIN d THEN d[key] ELSE None

\* track = item.get("track") or {}
\* record = {"Position": i, ..., "Track Name": track.get("name"), ...,
\*           "Album Name": album.get("name"), ..., "Popularity": track.get("popularity"), ...}
Record(i, item, albums) ==
    ("Position" :> IntVal(i))
        @@ ("Track Name" :> IF item.track THEN Get(item, "name") ELSE None)
        @@ ("Popularity" :> IF item.track THEN Get(item, "popularity") ELSE None)
        @@ ("track" :> item.track)
        @@ ("album" :> IF item.track /\ item.album \in albums THEN item.album ELSE 0)

\* Faulty variant of ExportData: items without a track are left out.
ExportDataSkipNull(its, albums) ==
    LET kept == SelectSeq(its, LAMBDA item : item.track)
    IN [i \in DOMAIN kept |-> Record(i, kept[i], albums)]

\* for i, item in enumerate(items, start=1): track = item.get("track") or {}
\* ... export_data.append(record): one record for every item.
ExportData(its, albums) == [i \in DOMAIN its |-> Record(i, its[i], albums)]

\* write_file: `if not data: logger.warning(...); return`, else the file is written.
WriteFile(file, data) == IF data = <<>> THEN file ELSE "written"

\* str(n) of a non-negative int: its decimal digits ('0' is code point 48).
RECURSIVE Digits(_)
Digits(n) == IF n < 10 THEN <<48 + n>> ELSE Digits(n \div 10) \o <<48 + (n % 10)>>

\* str(v): str(None) is 'None' (code points 78, 111, 110, 101).
Str(v) ==
    CASE v.k = "int" -> Digits(v.n)
      [] v.k = "str" -> v.s
      [] OTHER -> <<78, 111, 110, 101>>

\* u < w on str: by code points, a proper prefix first.
StrLess(u, w) ==
    \/ Len(u) < Len(w) /\ SubSeq(w, 1, Len(u)) = u
    \/ \E i \in 1..Min(Len(u), Len(w)) :
          SubSeq(u, 1, i - 1) = SubSeq(w, 1, i - 1) /\ u[i] < w[i]

\* key=lambda x: str(x[self.sort_key]) or ""
SortKey(x, key) == IF Str(x[key]) = <<>> THEN <<>> ELSE Str(x[key])

\* Faulty variant of Insert: a record goes before the records of equal key.
InsertBeforeEqual(sorted, x, key) ==
    LET before == Cardinality({i \in DOMAIN sorted :
                                  StrLess(SortKey(sorted[i], key), SortKey(x, key))})
    IN SubSeq(sorted, 1, before) \o <<x>> \o SubSeq(sorted, before + 1, Len(sorted))

\* list.sort is stable: a record goes after the records whose key is not greater.
Insert(sorted, x, key) ==
    LET before == Cardinality({i \in DOMAIN sorted :
                                  ~StrLess(SortKey(x, key), SortKey(sorted[i], key))})
    IN SubSeq(sorted, 1, before) \o <<x>> \o SubSeq(sorted, before + 1, Len(sorted))

\* export_data.sort(key=...), ascending.
RECURSIVE ListSort(_, _)
ListSort(data, key) ==
    IF data = <<>> THEN <<>>
    ELSE Insert(ListSort(SubSeq(data, 1, Len(data) - 1), key), data[Len(data)], key)

\* export_data.reverse()
Reverse(data) == [i \in DOMAIN data |-> data[Len(data) + 1 - i]]

\* if self.sort_key != "spotify_default": export_data.sort(...)
\* if self.reverse_order: export_data.reverse()
Arrange(data, key, rev) ==
    LET sorted == IF key # "spotify_default" THEN ListSort(data, key) ELSE data
    IN IF rev THEN Reverse(sorted) ELSE sorted

\* export_playlist after the fetches: cache update, albums = {aid: self.album_cache[aid]
\* for aid in album_ids} (KeyError on an id that is not cached), the records,
\* sort, reverse, write_file.
C_Build ==
    /\ prog = "cli" /\ pc = "c_build"
    /\ LET album_ids == AlbumIdsOf(items)
           cache == CacheAfter(album_cache, new_albums, t)
       IN /\ album_cache' = cache
          /\ IF album_ids \subseteq DOMAIN cache
                THEN LET records == ExportData(items, album_ids)
                         data == Arrange(records, sort_key, reverse_order)
                     IN /\ built' = records
                        /\ export_data' = data
                        /\ files' = [files EXCEPT ![t] = WriteFile(files[t], data)]
                        /\ rows' = Len(data)
                        /\ warnings' = IF data = <<>> THEN warnings + 1 ELSE warnings
                        /\ NextTarget("c_start")
                ELSE /\ Crash("KeyError")
                     /\ UNCHANGED <<outVars, files, rows, warnings, t>>
    /\ UNCHANGED <<fixedVars, envVars, reqVars, playlists, pageVars, batchVars, histVars>>

NextCli ==
    C_First \/ C_Next \/ C_Liked \/ C_Start \/ C_Albums \/ C_Batch \/ C_Show \/ C_Build

Next == NextCli \/ NextLegacy


Spec == Init /\ [][Next]_vars

\* The legacy program alone, on small playlists, which always takes its next
\* step while it has one (a single-threaded script: nothing else is scheduled).
InitLegacy == InitOf("legacy", 0, {0}, {0})
LiveSpec == InitLegacy /\ [][NextLegacy]_vars /\ WF_vars(NextLegacy)

\* The legacy program on small playlists, the remote sending any Retry-After
\* up to MaxRetryAfter seconds, or none, with a 429.
InitGuard == InitOf("legacy", 0, 0..MaxRetryAfter, {0})
GuardSpec == InitGuard /\ [][NextLegacy]_vars

\* Both programs on small playlists whose source may go on serving empty
\* pages, up to MaxTail of them, after its last item.
InitPage == \E p \in {"cli", "legacy"} : InitOf(p, 0, {0}, 0..MaxTail)
PageSpec == InitPage /\ [][Next]_vars

\* The sort keys of the model ("spotify_default": no sort).
SortKeys == {"spotify_default", "Position", "Track Name", "Popularity"}

\* Track names: None, '', 'A', 'Z'.  Popularities: None, 2, 10.
NameVals == {None, StrVal(<<>>), StrVal(<<65>>), StrVal(<<90>>)}
PopVals == {None, IntVal(2), IntVal(10)}

\* Playlist items with the track fields the sort keys read: tracks of every
\* name and popularity (no album), and the item without a track.
SortItems ==
    {[track |-> TRUE, album |-> 0, name |-> nm, popularity |-> pp] :
        nm \in NameVals, pp \in PopVals}
    \cup {[track |-> FALSE, album |-> 0, name |-> None, popularity |-> None]}

\* export_playlist of one target, at the point where its items are fetched,
\* under every configuration of sort_key and reverse_order.
InitSort ==
    /\ prog = "cli" /\ pc = "c_build" /\ outcome = "running" /\ error = "none"
    /\ faultsLeft = 0 /\ bigLeft = 0
    /\ retry = FALSE /\ attempts = <<>> /\ via = "none"
    /\ answer = Returned /\ given = Returned
    /\ playlists = <<1>> /\ t = 1
    /\ phase = "tracks" /\ src = NoSource /\ off = 0 /\ total = 0
    /\ items \in SeqsUpTo(SortItems, MaxRecords)
    /\ continuations = 0
    /\ id_list = <<>> /\ n_album_ids = 0 /\ batches = <<>> /\ b = 0
    /\ page_items = <<>> /\ unfetched = <<>> /\ shows = <<>> /\ new_albums = <<>>
    /\ album_cache = NoAlbums
    /\ files = [k \in Targets |-> "absent"]
    /\ rows = 0 /\ warnings = 0
    /\ batchCalls = <<>> /\ showCalls = <<>> /\ sentCached = {}
    /\ omitted = {} /\ failed = {}
    /\ sort_key \in SortKeys
    /\ reverse_order \in BOOLEAN
    /\ export_data = <<>>
    /\ built = <<>>
    /\ hints = {0} /\ retry_after = 0 /\ slept = 0 /\ tails = {0}

SortSpec == InitSort /\ [][C_Build]_vars

\* ================================================================= claims
\* The paginated fetch has returned to its caller.
FetchReturned == pc \in {"c_liked", "c_albums", "l_rows"}

CeilDiv(a, d) == (a + d - 1) \div d

\* C1: against a source whose declared total is the number of items it serves,
\* the paginated fetch (of either program) returns exactly the served items, in
\* the order the pages were served: nothing lost, duplicated or reordered.
C1_PaginatedFetchComplete ==
    (FetchReturned /\ src.total = Len(src.items)) => items = src.items

\* A fetch of more than two pages has returned.
C1_Witness ==
    /\ FetchReturned
    /\ src.total = Len(src.items)
    /\ Len(src.items) > 2 * src.page
    /\ items = src.items

\* C2: rate_limited_request answers every 429 by calling again, with the same
\* function and arguments; it never gives a rate-limit outcome to its caller;
\* what it gives is the remote's first answer that is not a 429; and a retry
\* in progress always ends.
C2_GuardRetriesUntilOutcome ==
    /\ [](via = "guard" =>
            /\ given # Raised(RateLimitStatus)
            /\ \A i \in DOMAIN attempts : attempts[i] = attempts[1]
            /\ retry <=> (answer = Raised(RateLimitStatus))
            /\ ~retry => given = answer)
    /\ (retry ~> ~retry)

\* The guard returned a result after as many 429 answers as the remote can give.
C2_Witness ==
    /\ via = "guard"
    /\ Len(attempts) = MaxFaults + 1
    /\ ~retry
    /\ given = Returned

\* C3: no request of an export gives a rate-limit outcome to the code that made
\* it (so a 429 neither aborts the run nor drops an id).
C3_RateLimitNeverSurfaces == given # Raised(RateLimitStatus)

\* C4: an id that is in album_cache is never sent again, in a batch request or
\* in a fallback lookup; the batches in flight are disjoint from the cache.
C4_CachedNeverRefetched ==
    /\ sentCached = {}
    /\ pc \in {"c_batch", "c_show"} =>
         /\ \A i \in DOMAIN batches : Range(batches[i]) \cap DOMAIN album_cache = {}
         /\ Range(unfetched) \cap DOMAIN album_cache = {}

\* A later playlist references a cached album and fetched only the other ids.
C4_Witness ==
    /\ pc = "c_build"
    /\ t > 1
    /\ AlbumIdsOf(items) \cap DOMAIN album_cache # {}
    /\ batchCalls # <<>>
    /\ Range(Flatten(batchCalls)) = AlbumIdsOf(items) \ DOMAIN album_cache

\* C5: a failed fallback lookup does not make export_playlist raise.
C5_FallbackFailureNonFatal ==
    ~(failed # {} /\ outcome = "crashed" /\ error = "KeyError")

\* C6: when batch mode returns, the fallback lookups issued are exactly the
\* omitted ids, one each, and the result holds every requested id but those
\* whose lookup failed, once each.
C6_FallbackPerOmittedId ==
    (pc = "c_build" /\ id_list # <<>>) =>
        /\ Range(showCalls) = omitted
        /\ Len(showCalls) = Cardinality(omitted)
        /\ failed \subseteq omitted
        /\ Range(new_albums) = Range(id_list) \ failed
        /\ Len(new_albums) = Len(id_list) - Cardinality(failed)

\* Two ids were omitted; one lookup failed and one succeeded.
C6_Witness ==
    /\ pc = "c_build"
    /\ Cardinality(omitted) = 2
    /\ Cardinality(failed) = 1
    /\ Len(new_albums) = Len(id_list) - 1

\* C7: the batches are the consecutive slices of at most BatchSize ids of
\* ids_to_fetch, ceil(K / BatchSize) of them, and when batch mode returns each
\* was requested once, in order (no request at all when K = 0).
C7_BatchChunking ==
    /\ pc \in {"c_batch", "c_show", "c_build"} =>
         /\ Len(batches) = CeilDiv(Len(id_list), BatchSize)
         /\ \A i \in DOMAIN batches : Len(batches[i]) \in 1..BatchSize
         /\ Flatten(batches) = id_list
    /\ pc = "c_build" => batchCalls = batches

\* 25 ids were fetched in two requests, of 20 and of 5 ids.
C7_Witness ==
    /\ pc = "c_build"
    /\ Len(id_list) = BatchSize + 5
    /\ Len(batchCalls) = 2
    /\ Len(batchCalls[1]) = BatchSize
    /\ Len(batchCalls[2]) = 5

\* C8: whenever the paginated fetch returns, the number of accumulated items
\* is the total the first page declared.
C8_ReturnedCountEqualsTotal == FetchReturned => Len(items) = total

\* C9: a remote failure while exporting a target does not end the run while
\* targets remain.
C9_RunGoesOnAfterFailure ==
    (outcome = "crashed" /\ error = "remote" /\ t >= 1) => t = Len(playlists)

\* C10: a target's output file exists only once it is completely written.
C10_NoPartialOutputFile == \A k \in Targets : files[k] \in {"absent", "written"}

\* export_playlist has built and handed over the records of target t.
CliExported ==
    /\ prog = "cli" /\ phase = "tracks"
    /\ pc = "c_start" \/ (pc = "exit" /\ outcome = "done")

\* The legacy export of target t has written its rows.
LegacyExported ==
    /\ prog = "legacy" /\ phase = "tracks"
    /\ pc = "l_open" \/ (pc = "exit" /\ outcome = "done")

\* The number of items of a sequence that have no track.
NullTracks(its) == Cardinality({i \in DOMAIN its : ~its[i].track})

Arranged == prog = "cli" /\ pc \in {"c_start", "exit"} /\ outcome # "crashed" /\ t >= 1 /\ phase = "tracks"

\* u <= w on str.
StrLeq(u, w) == u = w \/ StrLess(u, w)

\* The records in ascending order of the string form of their value under
\* key, records of equal string form in source order.
InStableOrder(data, key) ==
    \A i, j \in DOMAIN data :
        i < j =>
            /\ StrLeq(Str(data[i][key]), Str(data[j][key]))
            /\ Str(data[i][key]) = Str(data[j][key]) =>
                   data[i]["Position"].n < data[j]["Position"].n

\* C12: for a sort key other than the default the emitted records are the
\* built records in the order of a stable sort by the string form of the
\* key's value; with reverse_order they are that sequence reversed (the
\* source order reversed when the key is the default).
C12_SortStableThenReversed ==
    Arranged =>
        LET fwd == IF reverse_order THEN Reverse(export_data) ELSE export_data
        IN /\ Len(fwd) = Len(built)
           /\ \A i \in DOMAIN fwd : fwd[i] = built[fwd[i]["Position"].n]
           /\ {fwd[i]["Position"].n : i \in DOMAIN fwd} = DOMAIN built
           /\ IF sort_key = "spotify_default"
                 THEN fwd = built
                 ELSE InStableOrder(fwd, sort_key)

\* Three records, two of them of equal name and the third of a smaller one
\* that was built last, were sorted by name and reversed.
C12_Witness ==
    /\ Arranged
    /\ sort_key = "Track Name" /\ reverse_order
    /\ Len(built) = 3
    /\ built[1]["Track Name"] = built[2]["Track Name"]
    /\ StrLess(Str(built[3]["Track Name"]), Str(built[1]["Track Name"]))
    /\ export_data = <<built[2], built[1], built[3]>>

ExportedTarget == IF pc = "exit" THEN t ELSE t - 1

\* C14: when the records of a playlist are empty, no output file is created or
\* written for it (not even one holding only a header) and exactly one
\* warning is emitted.
C14_EmptyExportWritesNothing ==
    ((CliExported \/ LegacyExported) /\ items = <<>>) =>
        /\ files[ExportedTarget] = "absent"
        /\ warnings = 1

\* C15: under a sort key other than the default, a record whose value is
\* missing is ordered as if its key were the empty string: it comes before
\* every record whose value has a non-empty string form.
C15_MissingSortsFirst ==
    (Arranged /\ sort_key # "spotify_default" /\ ~reverse_order) =>
        \A i, j \in DOMAIN export_data :
            (/\ export_data[i][sort_key] = None
             /\ export_data[j][sort_key] # None
             /\ Str(export_data[j][sort_key]) # <<>>) => i < j

\* C16: on a 429 the guard sleeps exactly the Retry-After the answer carries,
\* and exactly CountdownFrom seconds when it carries none.
C16_BackoffDuration ==
    retry => slept = (IF retry_after > 0 THEN retry_after ELSE CountdownFrom)

\* A step of the paginated fetch that sent a `next` request to the remote:
\* the request was answered with a page, or it failed.
ContinuationSent ==
    /\ pc \in {"c_next", "l_next"}
    /\ continuations' # continuations \/ faultsLeft' # faultsLeft

\* C17: against a source whose cursor is null after finitely many pages,
\* whatever total it declares and whatever its pages hold (empty pages
\* included), the paginated fetch sends at most one `next` request for each
\* page after the first, each answered one moving the cursor forward, and it
\* sends none once the cursor is null: it ends, by returning or by raising,
\* after finitely many of them.
C17_PaginationTerminates ==
    /\ [](continuations <= NumPages(src) - 1 /\ off <= Len(src.items) + src.tail)
    /\ [][ContinuationSent => HasNext(src, off)]_vars
    /\ [][continuations' = continuations + 1 => off' > off]_vars

\* The cli fetch went through every page of a source of several pages of
\* items and a trailing empty page, without reaching the declared total, and
\* raised at the null cursor.
C17_Witness ==
    /\ prog = "cli" /\ outcome = "crashed" /\ error = "AttributeError"
    /\ src.tail = MaxTail
    /\ Len(src.items) > src.page
    /\ Len(items) < total
    /\ continuations = NumPages(src) - 1

====
